---- MODULE Spec2Model ----
(***************************************************************************)
(* A model of the gossdp engine (src/ssdp.go): the registry of advertised  *)
(* servers, the per-advertisement timers, the unbuffered writeChannel with *)
(* its blocked senders, the socketWriter and socketReader loops, and the   *)
(* Start/Stop lifecycle.                                                   *)
(*                                                                         *)
(* Strings that the code slices (ST values, service types, device UUIDs)   *)
(* are sequences of one-character strings.  A pointer to an                *)
(* AdvertisableServer is its index in adsHeap.  A goroutine that panics    *)
(* takes the whole process down: panic # "none" disables every action.     *)
(***************************************************************************)
EXTENDS Integers, Sequences, FiniteSets, Bags, TLC

\* ---------------------------------------------------------------- bounds
MaxAds == 2
MaxCalls == 2
MaxFires == 1
MaxDatagrams == 1
NumStoppers == 1
MaxAgeSent == 24
MaxAge == 5
MaxRegistryCalls == 4
Horizon == 40

\* ------------------------------------------------------- program constants
Quote == "\""
SsdpAll == <<"s", "s", "d", "p", ":", "a", "l", "l">>
Multicast == "239.255.255.250:1900"
FirstDelay == <<1, 3>>
Digits == <<"0", "1", "2", "3", "4", "5", "6", "7", "8", "9">>
MaxAgeKey == <<"m", "a", "x", "-", "a", "g", "e", "=">>

\* ------------------------------------------------------------ input sets
ServiceTypes == {<<"a">>, <<"u">>}
Uuids == {<<"u">>, <<"v">>}
ListenTargets == {<<"a">>, <<"u">>}
Addrs == {"peer1"}
NtsValues == {"", "ssdp:alive", "SSDP:ALIVE", "ssdp:byebye", "ssdp:update"}
NtValues == {<<>>, <<"a">>}
ResponseSts == {<<"a">>}
ManValues == {"", "\"ssdp:discover\""}
MxValues == {<<>>, <<"0">>, <<"2">>, <<"x">>}
StValues == {<<>>, <<"a">>, <<"u">>, <<"v">>, SsdpAll, <<Quote>>,
             <<Quote, "a", Quote>>, <<Quote, "a", "u", Quote>>}
Stoppers == 1..NumStoppers
ExtraStopper == NumStoppers + 1
AllStoppers == 1..ExtraStopper
TimerIds == {1, 2}

\* strconv.Itoa for n >= 0.
RECURSIVE Itoa(_)
Itoa(n) ==
    IF n < 10 THEN <<Digits[n + 1]>>
    ELSE Itoa(n \div 10) \o <<Digits[(n % 10) + 1]>>

\* The header value `max-age=<n>`.
MaxAgeHeader(n) == MaxAgeKey \o Itoa(n)

\* Cache-Control values of received datagrams; <<>> is the header left out.
CcFew == {<<>>}
CcValues ==
    {MaxAgeHeader(n) : n \in 0..MaxAgeSent}
        \cup {<<>>, MaxAgeKey, MaxAgeKey \o <<"a", "b", "c">>,
              <<"a", "g", "e", "=", "7">>,
              <<"x", ",">> \o MaxAgeHeader(5) \o <<",", "y">>,
              MaxAgeHeader(3) \o <<",">> \o MaxAgeHeader(4),
              MaxAgeHeader(6) \o <<",">> \o MaxAgeKey \o <<"z">>}

VARIABLES
    isRunning,            \* Ssdp.isRunning
    advertisableServers,  \* Ssdp.advertisableServers: service type -> sequence of pointers
    deviceIdToServer,     \* Ssdp.deviceIdToServer: device uuid -> pointer
    listenSearchTargets,  \* Ssdp.listenSearchTargets (the keys set to true)
    listener,             \* Ssdp.listener # nil
    socket,               \* Ssdp.socket / Ssdp.rawSocket: "open", "closed" or "nil"
    chanClosed,           \* close(s.writeChannel) has run
    exitWriteWaitGroup,   \* counter of Ssdp.exitWriteWaitGroup
    exitReadWaitGroup,    \* counter of Ssdp.exitReadWaitGroup
    adsHeap,              \* the AdvertisableServer objects allocated by AdvertiseServer
    timers,               \* timers[p][k]: lastTimer (k = 1) and last3sTimer (k = 2) of object p
    listenSenders,        \* goroutines of ListenFor blocked on the channel, per target
    writerPc,             \* socketWriter: "idle", "run", "exited"
    reader,               \* socketReader and the M-SEARCH it is answering
    stopPc,               \* position of each Stop call
    stopTodo,             \* advertiseClosed: entries of the range loop still to visit
    stopCur,              \* advertiseClosed: entry whose byebye is being sent
    panic,                \* "none", or the runtime panic that ended the process
    handed,               \* bag of datagrams the writer received from the channel
    event,                \* the observer callback made for the last datagram read
    registeredAtStop,     \* objects in the registry when the first Stop began
    sentinels,            \* number of sentinel sends that Stop calls have made
    lastCall,             \* result of the last API call if it was ListenFor: "nil", "error"
    apiCalls,             \* number of API calls made
    fires,                \* number of timer firings
    datagrams,            \* number of datagrams read from the socket
    writing,              \* socketWriter: the message received and not yet written
    wire,                 \* bag of datagrams written to the socket
    removed,              \* objects whose RemoveServer call has returned
    clock                 \* wall time and the due times of one advertisement's timers

registryVars == <<advertisableServers, deviceIdToServer, adsHeap>>
stopVars == <<stopPc, stopTodo, stopCur, registeredAtStop, sentinels>>
ioVars == <<socket, chanClosed, exitWriteWaitGroup, exitReadWaitGroup, writerPc>>
histVars == <<handed, event, lastCall, apiCalls, fires, datagrams>>
writerVars == <<writing, wire>>
engineVars == <<isRunning, registryVars, listenSearchTargets, listener, ioVars,
                timers, listenSenders, reader, stopVars, panic, histVars,
                writerVars, removed>>
vars == <<isRunning, advertisableServers, deviceIdToServer, listenSearchTargets,
          listener, socket, chanClosed, exitWriteWaitGroup, exitReadWaitGroup,
          adsHeap, timers, listenSenders, writerPc, reader, stopPc, stopTodo,
          stopCur, panic, handed, event, registeredAtStop, sentinels, lastCall,
          apiCalls, fires, datagrams, writing, wire, removed, clock>>

\* ------------------------------------------------------------- Go maps
EmptyMap == [x \in {} |-> 0]

MapPut(m, k, v) == [x \in (DOMAIN m) \cup {k} |-> IF x = k THEN v ELSE m[x]]

MapDel(m, k) == [x \in (DOMAIN m) \ {k} |-> m[x]]

SeqRange(s) == {s[i] : i \in 1..Len(s)}

RemoveAt(s, i) == SubSeq(s, 1, i - 1) \o SubSeq(s, i + 1, Len(s))

\* The objects reachable from either index of the registry.
Registered(byType, byUuid) ==
    UNION {SeqRange(byType[k]) : k \in DOMAIN byType}
        \cup {byUuid[k] : k \in DOMAIN byUuid}

\* ------------------------------------------------------------- reader
NoEvent ==
    [kind |-> "none", nt |-> <<>>, listened |-> FALSE, running |-> FALSE,
     maxAge |-> -1]

NoSearch ==
    [pc |-> "idle", got |-> "none", valid |-> FALSE, st |-> <<>>, to |-> "",
     mode |-> "none", visited |-> {}, created |-> {}, slice |-> <<>>, cur |-> 0,
     sent |-> <<>>, changed |-> FALSE, delay |-> 0]

\* A range loop over advertisableServers that is in progress when a key is
\* created: Go may produce the new entry or skip it.
IterAfterCreate(r, key) ==
    IF r.pc = "respond" /\ r.mode = "all"
    THEN [r EXCEPT !.created = @ \cup {key}, !.visited = @ \ {key}, !.changed = TRUE]
    ELSE IF r.pc = "respond" THEN [r EXCEPT !.changed = TRUE] ELSE r

IterAfterChange(r) ==
    IF r.pc = "respond" THEN [r EXCEPT !.changed = TRUE] ELSE r

\* No message in the writer's hands.
NoMsg == [kind |-> "none", ad |-> 0, st |-> <<>>, to |-> ""]

\* No timer of the timed advertisement has been created.
NoClock == [now |-> 0, age |-> 0, due |-> <<>>, prev |-> -1, last |-> -1]

Init ==
    /\ isRunning = TRUE
    /\ advertisableServers = EmptyMap
    /\ deviceIdToServer = EmptyMap
    /\ listenSearchTargets = {}
    /\ listener \in BOOLEAN
    /\ socket = "open"
    /\ chanClosed = FALSE
    /\ exitWriteWaitGroup = 0
    /\ exitReadWaitGroup = 0
    /\ adsHeap = <<>>
    /\ timers = <<>>
    /\ listenSenders = [t \in ListenTargets |-> 0]
    /\ writerPc = "idle"
    /\ reader = NoSearch
    /\ stopPc = [p \in AllStoppers |-> "idle"]
    /\ stopTodo = [p \in AllStoppers |-> {}]
    /\ stopCur = [p \in AllStoppers |-> 0]
    /\ panic = "none"
    /\ handed = EmptyBag
    /\ event = NoEvent
    /\ registeredAtStop = {}
    /\ sentinels = 0
    /\ lastCall = "none"
    /\ apiCalls = 0
    /\ fires = 0
    /\ datagrams = 0
    /\ writing = NoMsg
    /\ wire = EmptyBag
    /\ removed = {}
    /\ clock = NoClock

\* ------------------------------------------------------------ API calls
\* The test of isRunning left out.
NotRunningDropped == FALSE

\* `if !s.isRunning { return }` under interactionLock.
NotRunning == ~isRunning

\* timer.Stop(): an armed timer is disarmed; a callback that already runs goes on.
StopTimer(t) == IF t = "armed" THEN "stopped" ELSE t

StopTimers(ts) == [k \in TimerIds |-> StopTimer(ts[k])]

AdvertiseServer(st, uuid) ==
    /\ panic = "none"
    /\ apiCalls' = apiCalls + 1
    /\ lastCall' = "none"
    /\ IF NotRunning
       THEN UNCHANGED <<registryVars, timers, reader>>
       ELSE /\ Len(adsHeap) < MaxAds
            /\ LET p == Len(adsHeap) + 1 IN
               /\ adsHeap' = Append(adsHeap, [ServiceType |-> st, DeviceUuid |-> uuid])
               /\ advertisableServers' =
                      IF st \in DOMAIN advertisableServers
                      THEN [advertisableServers EXCEPT ![st] = Append(@, p)]
                      ELSE MapPut(advertisableServers, st, <<p>>)
               /\ deviceIdToServer' = MapPut(deviceIdToServer, uuid, p)
               /\ timers' = Append(timers, [k \in TimerIds |-> "armed"])
               /\ reader' = IF st \in DOMAIN advertisableServers
                            THEN IterAfterChange(reader)
                            ELSE IterAfterCreate(reader, st)
    /\ UNCHANGED <<isRunning, listenSearchTargets, listener, ioVars, listenSenders,
                   stopVars, panic, handed, event, fires, datagrams, writerVars,
                   removed, clock>>

\* The bucket after RemoveServer's loop: the first entry with the uuid is cut out.
RemoveFromGroup(group, uuid) ==
    LET hits == {i \in 1..Len(group) : adsHeap[group[i]].DeviceUuid = uuid} IN
    IF hits = {} THEN group
    ELSE RemoveAt(group, CHOOSE i \in hits : \A j \in hits : i <= j)

RemoveServer(uuid) ==
    /\ panic = "none"
    /\ apiCalls' = apiCalls + 1
    /\ lastCall' = "none"
    /\ IF NotRunning \/ uuid \notin DOMAIN deviceIdToServer
       THEN UNCHANGED <<registryVars, timers, reader, removed>>
       ELSE LET p == deviceIdToServer[uuid]
                st == adsHeap[p].ServiceType IN
            /\ timers' = [timers EXCEPT ![p] = StopTimers(@)]
            /\ deviceIdToServer' = MapDel(deviceIdToServer, uuid)
            /\ advertisableServers' =
                   IF st \notin DOMAIN advertisableServers THEN advertisableServers
                   ELSE IF Len(advertisableServers[st]) = 1
                        THEN MapDel(advertisableServers, st)
                        ELSE [advertisableServers EXCEPT
                                 ![st] = RemoveFromGroup(@, uuid)]
            /\ reader' = IterAfterChange(reader)
            /\ removed' = removed \cup {p}
            /\ UNCHANGED adsHeap
    /\ UNCHANGED <<isRunning, listenSearchTargets, listener, ioVars, listenSenders,
                   stopVars, panic, handed, event, fires, datagrams, writerVars, clock>>

\* The goroutine of lines 612-614 is a sender blocked on writeChannel from the
\* moment it is spawned.
ListenFor(t) ==
    /\ panic = "none"
    /\ apiCalls' = apiCalls + 1
    /\ IF NotRunning
       THEN /\ lastCall' = "error"
            /\ UNCHANGED <<listenSearchTargets, listenSenders>>
       ELSE /\ lastCall' = "nil"
            /\ listenSearchTargets' = listenSearchTargets \cup {t}
            /\ listenSenders' = [listenSenders EXCEPT ![t] = @ + 1]
    /\ UNCHANGED <<isRunning, registryVars, listener, ioVars, timers, reader,
                   stopVars, panic, handed, event, fires, datagrams, writerVars,
                   removed, clock>>

\* ------------------------------------------------------------- channel
\* Some goroutine is blocked in `s.writeChannel <- ...`.
PendingSenders ==
    \/ \E p \in 1..Len(timers) : \E k \in TimerIds : timers[p][k] = "sending"
    \/ \E t \in ListenTargets : listenSenders[t] > 0
    \/ \E s \in AllStoppers : stopPc[s] \in {"byeSend", "sentinelSend"}
    \/ reader.cur # 0

AliveMsg(p) == [kind |-> "alive", ad |-> p, st |-> <<>>, to |-> Multicast]

ByeMsg(p) == [kind |-> "byebye", ad |-> p, st |-> <<>>, to |-> Multicast]

SearchMsg(t) == [kind |-> "msearch", ad |-> 0, st |-> t, to |-> Multicast]

\* respondToMSearch addresses the 200 OK to the datagram's source.
ResponseMsg(p, sendTo) == [kind |-> "response", ad |-> p, st |-> <<>>, to |-> sendTo]

\* ------------------------------------------------------------- timers
\* The callback of time.AfterFunc: advertiseServer(ads, true) blocks on the
\* channel; timer.Reset follows once the writer has taken the datagram.
TimerFire(p, k) ==
    /\ panic = "none"
    /\ fires < MaxFires
    /\ p \in 1..Len(timers)
    /\ timers[p][k] = "armed"
    /\ fires' = fires + 1
    /\ IF chanClosed
       THEN panic' = "send on closed channel" /\ UNCHANGED timers
       ELSE timers' = [timers EXCEPT ![p][k] = "sending"] /\ UNCHANGED panic
    /\ UNCHANGED <<isRunning, registryVars, listenSearchTargets, listener, ioVars,
                   listenSenders, reader, stopVars, handed, event, lastCall,
                   apiCalls, datagrams, writerVars, removed, clock>>

\* ------------------------------------------------------------- timers in time
\* Lines 301-302 for one advertisement with MaxAge = age, in seconds from the
\* call: the two timers are created with their first delays.
ClockAdvertise(age) ==
    /\ clock.due = <<>>
    /\ clock' = [clock EXCEPT !.age = age, !.due = FirstDelay]
    /\ UNCHANGED engineVars

\* The earliest timer fires: with the writer ready its NOTIFY alive is taken at
\* once, and timer.Reset(d + age seconds) sets the next firing.
ClockFire(k) ==
    /\ clock.due # <<>>
    /\ \A j \in TimerIds : clock.due[k] <= clock.due[j]
    /\ clock.due[k] <= Horizon
    /\ clock' = [clock EXCEPT !.now = clock.due[k],
                              !.due[k] = clock.due[k] + FirstDelay[k] + clock.age,
                              !.prev = clock.last,
                              !.last = clock.due[k]]
    /\ UNCHANGED engineVars

\* ------------------------------------------------------------- Start
\* `go s.socketWriter()` with its exitWriteWaitGroup.Add(1), and the caller
\* entering socketReader.  Start can be called again once it has returned.
Start ==
    /\ panic = "none"
    /\ writerPc \in {"idle", "exited"}
    /\ reader.pc \in {"idle", "exited"}
    /\ writerPc' = "run"
    /\ exitWriteWaitGroup' = exitWriteWaitGroup + 1
    /\ reader' = [reader EXCEPT !.pc = "enter"]
    /\ UNCHANGED <<isRunning, registryVars, listenSearchTargets, listener, socket,
                   chanClosed, exitReadWaitGroup, timers, listenSenders, stopVars,
                   panic, histVars, writerVars, removed, clock>>

\* ------------------------------------------------------------- socketWriter
WriterFrame ==
    UNCHANGED <<isRunning, registryVars, listenSearchTargets, listener, socket,
                chanClosed, exitReadWaitGroup, panic, registeredAtStop, sentinels, event,
                lastCall, apiCalls, fires, datagrams, removed, clock>>

\* The writer receives while it writes.
WriterReadyEarly == writerPc \in {"run", "write"}

\* The writer is at `msg, more := <- s.writeChannel`.
WriterReady == writerPc = "run"

\* The receive of a datagram: msg holds it until WriteTo has returned.
Accept(msg) ==
    /\ handed' = handed (+) SetToBag({msg})
    /\ writing' = msg
    /\ writerPc' = "write"
    /\ UNCHANGED <<wire, exitWriteWaitGroup>>

WriterRecvAlive(p, k) ==
    /\ panic = "none" /\ WriterReady /\ ~chanClosed
    /\ p \in 1..Len(timers)
    /\ timers[p][k] = "sending"
    /\ Accept(AliveMsg(p))
    /\ timers' = [timers EXCEPT ![p][k] = "armed"]
    /\ WriterFrame
    /\ UNCHANGED <<listenSenders, reader, stopPc, stopTodo, stopCur>>

WriterRecvSearch(t) ==
    /\ panic = "none" /\ WriterReady /\ ~chanClosed
    /\ listenSenders[t] > 0
    /\ Accept(SearchMsg(t))
    /\ listenSenders' = [listenSenders EXCEPT ![t] = @ - 1]
    /\ WriterFrame
    /\ UNCHANGED <<timers, reader, stopPc, stopTodo, stopCur>>

WriterRecvBye(s) ==
    /\ panic = "none" /\ WriterReady /\ ~chanClosed
    /\ stopPc[s] = "byeSend"
    /\ Accept(ByeMsg(stopCur[s]))
    /\ stopPc' = [stopPc EXCEPT ![s] = "bye"]
    /\ stopCur' = [stopCur EXCEPT ![s] = 0]
    /\ WriterFrame
    /\ UNCHANGED <<timers, listenSenders, reader, stopTodo>>

WriterRecvResponse ==
    /\ panic = "none" /\ WriterReady /\ ~chanClosed
    /\ reader.cur # 0
    /\ Accept(ResponseMsg(reader.cur, reader.to))
    /\ reader' = [reader EXCEPT !.cur = 0,
                                !.sent = Append(@, ResponseMsg(reader.cur, reader.to))]
    /\ WriterFrame
    /\ UNCHANGED <<timers, listenSenders, stopPc, stopTodo, stopCur>>

\* `s.rawSocket.WriteTo(msg.message, msg.to)`: on a closed socket it returns an
\* error, which is logged; on the nil interface it is a nil dereference.
WriterWrite ==
    /\ panic = "none" /\ writerPc = "write"
    /\ IF socket = "nil"
       THEN /\ panic' = "nil pointer dereference"
            /\ UNCHANGED <<writerPc, writing, wire>>
       ELSE /\ wire' = IF socket = "open" THEN wire (+) SetToBag({writing}) ELSE wire
            /\ writing' = NoMsg
            /\ writerPc' = "run"
            /\ UNCHANGED panic
    /\ UNCHANGED <<isRunning, registryVars, listenSearchTargets, listener, socket,
                   chanClosed, exitReadWaitGroup, exitWriteWaitGroup, timers,
                   listenSenders, reader, stopVars, histVars, removed, clock>>

\* `if msg.shouldExit { return }`
WriterRecvSentinel(s) ==
    /\ panic = "none" /\ WriterReady /\ ~chanClosed
    /\ stopPc[s] = "sentinelSend"
    /\ writerPc' = "exiting"
    /\ stopPc' = [stopPc EXCEPT ![s] = "wait"]
    /\ WriterFrame
    /\ UNCHANGED <<handed, writerVars, exitWriteWaitGroup, timers, listenSenders,
                   reader, stopTodo, stopCur>>

\* `if !more { return }`: the channel is closed.
WriterClosed ==
    /\ panic = "none" /\ WriterReady /\ chanClosed
    /\ writerPc' = "exiting"
    /\ WriterFrame
    /\ UNCHANGED <<handed, writerVars, exitWriteWaitGroup, timers, listenSenders,
                   reader, stopPc, stopTodo, stopCur>>

\* The deferred `s.exitWriteWaitGroup.Add(-1)`.
WriterExit ==
    /\ panic = "none" /\ writerPc = "exiting"
    /\ writerPc' = "exited"
    /\ exitWriteWaitGroup' = exitWriteWaitGroup - 1
    /\ WriterFrame
    /\ UNCHANGED <<handed, writerVars, timers, listenSenders, reader, stopPc,
                   stopTodo, stopCur>>

\* ------------------------------------------------------------- socketReader
ReaderFrame ==
    UNCHANGED <<isRunning, registryVars, listenSearchTargets, listener, socket,
                chanClosed, exitWriteWaitGroup, timers, listenSenders, writerPc,
                stopVars, handed, lastCall, apiCalls, fires, writerVars, removed, clock>>

\* s.exitReadWaitGroup.Add(1) on entering socketReader.
ReaderEnter ==
    /\ panic = "none"
    /\ reader.pc = "enter"
    /\ reader' = [reader EXCEPT !.pc = "read"]
    /\ exitReadWaitGroup' = exitReadWaitGroup + 1
    /\ UNCHANGED <<isRunning, registryVars, listenSearchTargets, listener, socket,
                   chanClosed, exitWriteWaitGroup, timers, listenSenders, writerPc,
                   stopVars, panic, histVars, writerVars, removed, clock>>

\* s.rawSocket.ReadFrom on a socket that Stop closed returns an error and the
\* loop returns; on the nil interface that Stop left it is a nil dereference.
ReaderClosed ==
    /\ panic = "none"
    /\ reader.pc = "read"
    /\ socket # "open"
    /\ IF socket = "nil"
       THEN /\ panic' = "nil pointer dereference"
            /\ UNCHANGED <<reader, exitReadWaitGroup>>
       ELSE /\ reader' = [reader EXCEPT !.pc = "exited"]
            /\ exitReadWaitGroup' = exitReadWaitGroup - 1
            /\ UNCHANGED panic
    /\ UNCHANGED <<event, datagrams>>
    /\ ReaderFrame

Reading ==
    /\ panic = "none"
    /\ reader.pc = "read"
    /\ socket = "open"
    /\ datagrams < MaxDatagrams

\* strings.ToLower on the NTS values of the input set.
ToLower(s) == IF s = "SSDP:ALIVE" THEN "ssdp:alive" ELSE s

IsDigit(c) == \E d \in 1..Len(Digits) : Digits[d] = c

DigitValue(c) == (CHOOSE d \in 1..Len(Digits) : Digits[d] = c) - 1

RECURSIVE DecimalValue(_)
DecimalValue(s) ==
    IF s = <<>> THEN 0
    ELSE 10 * DecimalValue(SubSeq(s, 1, Len(s) - 1)) + DigitValue(s[Len(s)])

\* strconv.ParseInt(s, 10, 0) for values within the range of int: an optional
\* sign and one or more digits, else the value 0 and an error.
ParseInt(s) ==
    LET signed == s # <<>> /\ s[1] \in {"+", "-"}
        body == IF signed THEN Tail(s) ELSE s
    IN  IF body = <<>> \/ \E i \in 1..Len(body) : ~IsDigit(body[i])
        THEN [val |-> 0, err |-> TRUE]
        ELSE [val |-> IF signed /\ s[1] = "-" THEN 0 - DecimalValue(body)
                      ELSE DecimalValue(body),
              err |-> FALSE]

\* The group `([0-9])`: one digit only.
DigitRunOne(cc, i) == <<cc[i]>>

\* The group `([0-9]+)` matched greedily from position i.
DigitRun(cc, i) ==
    LET stops == {j \in i..Len(cc) : ~IsDigit(cc[j])}
        last == IF stops = {} THEN Len(cc)
                ELSE (CHOOSE j \in stops : \A k \in stops : j <= k) - 1
    IN  SubSeq(cc, i, last)

\* cacheControlAge.FindStringSubmatch(cc)[1] for `.*max-age=([0-9]+).*`, or <<>>
\* when there is no match: the leading `.*` is greedy, so the group starts
\* after the last `max-age=` that a digit follows.
FindMaxAge(cc) ==
    LET n == Len(MaxAgeKey)
        at == {i \in 1..(Len(cc) - n) :
                  SubSeq(cc, i, i + n - 1) = MaxAgeKey /\ IsDigit(cc[i + n])}
    IN  IF at = {} THEN <<>>
        ELSE DigitRun(cc, (CHOOSE i \in at : \A j \in at : j <= i) + n)

\* The MaxAge of an event: -1 unless the header matches and the group parses.
CacheControlAge(cc) ==
    IF cc = <<>> \/ FindMaxAge(cc) = <<>> \/ ParseInt(FindMaxAge(cc)).err THEN -1
    ELSE ParseInt(FindMaxAge(cc)).val

\* The callback Ssdp.notify makes for a NOTIFY with headers NTS, NT and
\* CACHE-CONTROL.
NotifyEvent(nts, nt, cc) ==
    IF ~listener \/ nts = "" \/ nt = <<>> THEN NoEvent
    ELSE IF ToLower(nts) = "ssdp:alive"
         THEN [kind |-> "alive", nt |-> nt,
               listened |-> nt \in listenSearchTargets, running |-> isRunning,
               maxAge |-> CacheControlAge(cc)]
    ELSE IF ToLower(nts) = "ssdp:byebye"
         THEN [kind |-> "bye", nt |-> nt,
               listened |-> nt \in listenSearchTargets, running |-> isRunning,
               maxAge |-> -1]
    ELSE NoEvent

\* The callback Ssdp.parseResponse makes for a response with headers ST and
\* CACHE-CONTROL.
ResponseEvent(st, cc) ==
    IF ~listener THEN NoEvent
    ELSE [kind |-> "response", nt |-> st,
          listened |-> st \in listenSearchTargets, running |-> isRunning,
          maxAge |-> CacheControlAge(cc)]

ReaderNotify(nts, nt, cc) ==
    /\ Reading
    /\ datagrams' = datagrams + 1
    /\ reader' = [NoSearch EXCEPT !.pc = "read"]
    /\ event' = NotifyEvent(nts, nt, cc)
    /\ UNCHANGED <<panic, exitReadWaitGroup>>
    /\ ReaderFrame

ReaderResponse(st, cc) ==
    /\ Reading
    /\ datagrams' = datagrams + 1
    /\ reader' = [NoSearch EXCEPT !.pc = "read"]
    /\ event' = ResponseEvent(st, cc)
    /\ UNCHANGED <<panic, exitReadWaitGroup>>
    /\ ReaderFrame

\* A datagram that is no request, or a request with another method or path.
ReaderDiscard ==
    /\ Reading
    /\ datagrams' = datagrams + 1
    /\ reader' = [NoSearch EXCEPT !.pc = "read"]
    /\ event' = NoEvent
    /\ UNCHANGED <<panic, exitReadWaitGroup>>
    /\ ReaderFrame

\* `st[0] == '"' && st[len(st) - 1] == '"'`
Quoted(st) == st[1] = Quote /\ st[Len(st)] = Quote

\* Go's st[1:len(st) - 2] panics unless 1 <= len(st) - 2.
SliceInRange(st) == 1 <= Len(st) - 2

\* st[1:len(st) - 2]: bytes 1 .. len(st) - 3, counted from 0.
Unquote(st) == IF Quoted(st) THEN SubSeq(st, 2, Len(st) - 2) ELSE st

\* The bucket looked up before the device uuid.
LookupTypeFirst(t) ==
    IF t = SsdpAll THEN [mode |-> "all", slice |-> <<>>]
    ELSE IF t \in DOMAIN advertisableServers
         THEN [mode |-> "bucket", slice |-> advertisableServers[t]]
    ELSE IF t \in DOMAIN deviceIdToServer
         THEN [mode |-> "one", slice |-> <<deviceIdToServer[t]>>]
    ELSE [mode |-> "none", slice |-> <<>>]

\* The branch inMSearch takes for search target t: the range loop over
\* advertisableServers, the device found by uuid, the bucket of the type.
Lookup(t) ==
    IF t = SsdpAll THEN [mode |-> "all", slice |-> <<>>]
    ELSE IF t \in DOMAIN deviceIdToServer
         THEN [mode |-> "one", slice |-> <<deviceIdToServer[t]>>]
    ELSE IF t \in DOMAIN advertisableServers
         THEN [mode |-> "bucket", slice |-> advertisableServers[t]]
    ELSE [mode |-> "none", slice |-> <<>>]

\* Ssdp.msearch: the three headers must be non-empty.
MSearchValid(man, mx, st) == man # "" /\ mx # <<>> /\ st # <<>>

\* Lines 530-536: mx is assigned only when ParseInt returned an error.
Delay(mx) ==
    IF mx # <<>> /\ ParseInt(mx).err THEN ParseInt(mx).val ELSE 0

ReaderMSearch(man, mx, st, src) ==
    /\ Reading
    /\ datagrams' = datagrams + 1
    /\ IF ~MSearchValid(man, mx, st)
       THEN /\ reader' = [NoSearch EXCEPT !.pc = "read", !.got = "msearch"]
            /\ UNCHANGED panic
       ELSE IF Quoted(st) /\ ~SliceInRange(st)
       THEN /\ panic' = "slice bounds out of range"
            /\ UNCHANGED reader
       ELSE LET t == Unquote(st)
                l == Lookup(t) IN
            /\ reader' = [NoSearch EXCEPT
                              !.pc = "respond",
                              !.got = "msearch", !.valid = TRUE, !.st = t,
                              !.to = src, !.mode = l.mode, !.slice = l.slice,
                              !.delay = Delay(mx)]
            /\ UNCHANGED panic
    /\ event' = IF panic' = "none" THEN NoEvent ELSE event
    /\ UNCHANGED exitReadWaitGroup
    /\ ReaderFrame

\* Keys the range loop over advertisableServers can still produce.
Unvisited == (DOMAIN advertisableServers) \ reader.visited

\* The range loop of `ssdp:all` reaches the next key and ranges over its bucket.
ReaderNextBucket(key) ==
    /\ panic = "none"
    /\ reader.pc = "respond" /\ reader.mode = "all"
    /\ reader.cur = 0 /\ reader.slice = <<>>
    /\ key \in Unvisited
    /\ reader' = [reader EXCEPT !.visited = @ \cup {key},
                                !.slice = advertisableServers[key]]
    /\ UNCHANGED <<panic, exitReadWaitGroup, event, datagrams>>
    /\ ReaderFrame

\* respondToMSearch: `s.writeChannel <- writeMessage{msg, addr, false}`.
ReaderOffer ==
    /\ panic = "none"
    /\ reader.pc = "respond"
    /\ reader.cur = 0 /\ reader.slice # <<>>
    /\ IF chanClosed
       THEN panic' = "send on closed channel" /\ UNCHANGED reader
       ELSE /\ reader' = [reader EXCEPT !.cur = Head(reader.slice),
                                        !.slice = Tail(reader.slice)]
            /\ UNCHANGED panic
    /\ UNCHANGED <<exitReadWaitGroup, event, datagrams>>
    /\ ReaderFrame

\* inMSearch returns: the loops are over.
ReaderDone ==
    /\ panic = "none"
    /\ reader.pc = "respond"
    /\ reader.cur = 0 /\ reader.slice = <<>>
    /\ reader.mode = "all" => Unvisited \subseteq reader.created
    /\ reader' = [NoSearch EXCEPT !.pc = "read"]
    /\ UNCHANGED <<panic, exitReadWaitGroup, event, datagrams>>
    /\ ReaderFrame

\* ------------------------------------------------------------- Stop
StopFrame ==
    UNCHANGED <<registryVars, listenSearchTargets, listener, exitWriteWaitGroup,
                exitReadWaitGroup, listenSenders, writerPc, reader, histVars,
                writerVars, removed, clock>>

\* Lines 633-638: isRunning = false under the lock, then the unlocked tests of
\* s.socket and of len(s.advertisableServers).
StopBegin(s) ==
    /\ panic = "none"
    /\ stopPc[s] = "idle"
    /\ isRunning' = FALSE
    /\ registeredAtStop' =
           IF isRunning THEN Registered(advertisableServers, deviceIdToServer)
           ELSE registeredAtStop
    /\ stopPc' = [stopPc EXCEPT ![s] = IF socket # "nil" THEN "bye" ELSE "done"]
    /\ stopTodo' = [stopTodo EXCEPT ![s] =
           IF socket # "nil" /\ DOMAIN advertisableServers # {}
           THEN {deviceIdToServer[u] : u \in DOMAIN deviceIdToServer} ELSE {}]
    /\ UNCHANGED <<stopCur, sentinels, timers, socket, chanClosed, panic>>
    /\ StopFrame

\* advertiseClosed, one turn of the loop: both timers stopped, then the byebye
\* is sent on the channel.
StopBye(s, p) ==
    /\ panic = "none"
    /\ stopPc[s] = "bye"
    /\ p \in stopTodo[s]
    /\ timers' = [timers EXCEPT ![p] = StopTimers(@)]
    /\ IF chanClosed
       THEN panic' = "send on closed channel" /\ UNCHANGED <<stopPc, stopTodo, stopCur>>
       ELSE /\ stopPc' = [stopPc EXCEPT ![s] = "byeSend"]
            /\ stopTodo' = [stopTodo EXCEPT ![s] = @ \ {p}]
            /\ stopCur' = [stopCur EXCEPT ![s] = p]
            /\ UNCHANGED panic
    /\ UNCHANGED <<isRunning, registeredAtStop, sentinels, socket, chanClosed>>
    /\ StopFrame

\* `s.writeChannel <- writeMessage{nil, nil, true}`
StopSentinel(s) ==
    /\ panic = "none"
    /\ stopPc[s] = "bye"
    /\ stopTodo[s] = {}
    /\ sentinels' = sentinels + 1
    /\ IF chanClosed
       THEN panic' = "send on closed channel" /\ UNCHANGED stopPc
       ELSE stopPc' = [stopPc EXCEPT ![s] = "sentinelSend"] /\ UNCHANGED panic
    /\ UNCHANGED <<isRunning, registeredAtStop, stopTodo, stopCur, timers, socket,
                   chanClosed>>
    /\ StopFrame

\* The exit of the writer awaited without effect.
WriterExitedDropped == TRUE

\* `s.exitWriteWaitGroup.Wait()` returns.
WriterExited == exitWriteWaitGroup = 0

\* Lines 642-645: the writer has exited; close(s.writeChannel) makes every
\* blocked sender panic; then both sockets are closed.
StopClose(s) ==
    /\ panic = "none"
    /\ stopPc[s] = "wait"
    /\ WriterExited
    /\ IF chanClosed
       THEN panic' = "close of closed channel"
            /\ UNCHANGED <<chanClosed, socket, stopPc>>
       ELSE IF PendingSenders
       THEN panic' = "send on closed channel"
            /\ UNCHANGED <<chanClosed, socket, stopPc>>
       ELSE /\ chanClosed' = TRUE
            /\ socket' = "closed"
            /\ stopPc' = [stopPc EXCEPT ![s] = "waitReader"]
            /\ UNCHANGED panic
    /\ UNCHANGED <<isRunning, registeredAtStop, sentinels, stopTodo, stopCur, timers>>
    /\ StopFrame

\* Lines 646-650: the reader's wait group is at zero; the handles are cleared.
StopClear(s) ==
    /\ panic = "none"
    /\ stopPc[s] = "waitReader"
    /\ exitReadWaitGroup = 0
    /\ socket' = "nil"
    /\ stopPc' = [stopPc EXCEPT ![s] = "done"]
    /\ UNCHANGED <<isRunning, registeredAtStop, sentinels, stopTodo, stopCur,
                   timers, chanClosed, panic>>
    /\ StopFrame

\* ------------------------------------------------------------- system
Api ==
    \/ \E st \in ServiceTypes : \E uuid \in Uuids :
           apiCalls < MaxCalls /\ AdvertiseServer(st, uuid)
    \/ \E uuid \in Uuids : apiCalls < MaxCalls /\ RemoveServer(uuid)
    \/ \E t \in ListenTargets : apiCalls < MaxCalls /\ ListenFor(t)
    \/ Start
    \/ \E s \in Stoppers : StopBegin(s)

TimerTasks ==
    \E p \in 1..MaxAds : \E k \in TimerIds : TimerFire(p, k)

WriterTasks ==
    \/ \E p \in 1..MaxAds : \E k \in TimerIds : WriterRecvAlive(p, k)
    \/ \E t \in ListenTargets : WriterRecvSearch(t)
    \/ \E s \in AllStoppers : WriterRecvBye(s)
    \/ \E s \in AllStoppers : WriterRecvSentinel(s)
    \/ WriterClosed
    \/ WriterWrite
    \/ WriterExit

ReaderLoop ==
    \/ ReaderEnter
    \/ ReaderClosed

StopTasks ==
    \/ \E s \in AllStoppers : \E p \in 1..MaxAds : StopBye(s, p)
    \/ \E s \in AllStoppers : StopSentinel(s)
    \/ \E s \in AllStoppers : StopClose(s)
    \/ \E s \in AllStoppers : StopClear(s)

Responder ==
    \/ \E key \in ServiceTypes : ReaderNextBucket(key)
    \/ ReaderOffer
    \/ WriterRecvResponse
    \/ ReaderDone

Receive ==
    \/ \E nts \in NtsValues : \E nt \in NtValues : \E cc \in CcFew :
           ReaderNotify(nts, nt, cc)
    \/ \E st \in ResponseSts : \E cc \in CcFew : ReaderResponse(st, cc)
    \/ ReaderDiscard
    \/ \E man \in ManValues : \E mx \in MxValues : \E st \in StValues :
           \E src \in Addrs : ReaderMSearch(man, mx, st, src)

Tasks == TimerTasks \/ WriterTasks \/ ReaderLoop \/ StopTasks \/ Responder

Next == Api \/ Tasks \/ Receive

Spec == Init /\ [][Next]_vars

\* The lifecycle alone: no datagram arrives.
NextLife == Api \/ TimerTasks \/ WriterTasks \/ ReaderLoop \/ StopTasks

\* One more Stop call racing the others.
NextStops == NextLife \/ StopBegin(ExtraStopper)

SpecStops == Init /\ [][NextStops]_vars

\* Every goroutine that can take a step is scheduled, and Start is called.
FairLife ==
    /\ Init /\ [][NextLife]_vars
    /\ WF_vars(Start)
    /\ WF_vars(TimerTasks)
    /\ WF_vars(WriterTasks)
    /\ WF_vars(ReaderLoop)
    /\ WF_vars(StopTasks)

\* The registry under longer sequences of AdvertiseServer and RemoveServer
\* calls, with the timers firing and no writer.
NextRegistry ==
    \/ \E st \in ServiceTypes : \E uuid \in Uuids :
           apiCalls < MaxRegistryCalls /\ AdvertiseServer(st, uuid)
    \/ \E uuid \in Uuids : apiCalls < MaxRegistryCalls /\ RemoveServer(uuid)
    \/ TimerTasks

SpecRegistry == Init /\ [][NextRegistry]_vars

\* The two timers of one advertisement in time, the writer always ready.
NextClock ==
    \/ \E age \in 1..MaxAge : ClockAdvertise(age)
    \/ \E k \in TimerIds : ClockFire(k)

SpecClock == Init /\ [][NextClock]_vars

\* The reader with the Cache-Control values of CcValues.
ReceiveAge ==
    \/ \E nts \in NtsValues : \E nt \in NtValues : \E cc \in CcValues :
           ReaderNotify(nts, nt, cc)
    \/ \E st \in ResponseSts : \E cc \in CcValues : ReaderResponse(st, cc)

NextAge ==
    \/ \E t \in ListenTargets : apiCalls < MaxCalls /\ ListenFor(t)
    \/ Start
    \/ ReaderEnter
    \/ ReceiveAge

SpecAge == Init /\ [][NextAge]_vars

\* ------------------------------------------------------------- claims

\* C1: when a Stop call has returned, exactly one byebye has been handed to the
\* writer for each advertisement that was registered when Stop began.
C1_OneByebyePerAdvertisement ==
    \A s \in AllStoppers :
        stopPc[s] = "done" =>
            \A p \in registeredAtStop : CopiesIn(ByeMsg(p), handed) = 1

\* C2: a NOTIFY reaches the observer (NotifyAlive, NotifyBye) only if its NT
\* was passed to a successful ListenFor before.
C2_NotifyOnlyListened ==
    event.kind \in {"alive", "bye"} => event.listened

\* C3: the registry holds one advertisement per device uuid, and an
\* advertisement is in the bucket of its service type iff it is the entry
\* recorded under its device uuid.
C3_OnePerUuid ==
    LET reg == Registered(advertisableServers, deviceIdToServer)
        InBucket(p) ==
            /\ adsHeap[p].ServiceType \in DOMAIN advertisableServers
            /\ p \in SeqRange(advertisableServers[adsHeap[p].ServiceType])
        ByUuid(p) ==
            /\ adsHeap[p].DeviceUuid \in DOMAIN deviceIdToServer
            /\ deviceIdToServer[adsHeap[p].DeviceUuid] = p
    IN  /\ \A p, q \in reg : adsHeap[p].DeviceUuid = adsHeap[q].DeviceUuid => p = q
        /\ \A p \in 1..Len(adsHeap) : InBucket(p) <=> ByUuid(p)

\* C4: the M-SEARCH of a successful ListenFor is written by the writer; so the
\* writer never exits while such an M-SEARCH is still waiting to be taken.
C4_SearchReachesWriter ==
    \A t \in ListenTargets : listenSenders[t] > 0 => writerPc # "exited"

\* C5: once the engine is marked not running, an AdvertiseServer, RemoveServer
\* or ListenFor call changes neither index, no timer and not the listen
\* filter, hands nothing to the channel, and ListenFor returns an error.
C5_NoOpAfterStop ==
    [][(~isRunning /\ apiCalls' # apiCalls) =>
          /\ UNCHANGED <<advertisableServers, deviceIdToServer, adsHeap, timers,
                         listenSearchTargets, listenSenders, handed>>
          /\ lastCall' \in {"none", "error"}]_vars

\* ListenFor has been refused after Stop, with an advertisement registered.
C5_Witness ==
    /\ ~isRunning
    /\ lastCall = "error"
    /\ apiCalls = MaxCalls
    /\ DOMAIN deviceIdToServer # {}

\* C6: over all Stop calls, sequential or concurrent, at most one sentinel is
\* sent on the channel.
C6_AtMostOneSentinel == sentinels <= 1

\* C7: the engine never panics; in particular no goroutine sends on
\* writeChannel after Stop closed it or is blocked sending when it is closed.
C7_NoSendOnClosedChannel == panic # "send on closed channel"

\* C8: an observer callback is made only while the engine is running.
C8_EventsOnlyWhileRunning == event.kind # "none" => event.running

\* C9: every Stop call that has begun returns.
C9_StopReturns ==
    \A s \in AllStoppers : (stopPc[s] # "idle") ~> (stopPc[s] = "done")

\* The 200 OK sent so far for advertisement p.
Responses(p) ==
    Cardinality({i \in 1..Len(reader.sent) : reader.sent[i].ad = p})
        + (IF reader.cur = p THEN 1 ELSE 0)

\* The number of 200 OK that advertisement p is due for search target t.
Due(t, p) ==
    IF t = SsdpAll
    THEN IF p \in Registered(advertisableServers, deviceIdToServer) THEN 1 ELSE 0
    ELSE IF t \in DOMAIN deviceIdToServer
         THEN IF deviceIdToServer[t] = p THEN 1 ELSE 0
    ELSE IF t \in DOMAIN advertisableServers
         THEN IF p \in SeqRange(advertisableServers[t]) THEN 1 ELSE 0
    ELSE 0

\* inMSearch is about to return.
SearchOver ==
    /\ reader.pc = "respond"
    /\ reader.cur = 0
    /\ reader.slice = <<>>
    /\ reader.mode = "all" => Unvisited = {}

\* C10: for a valid M-SEARCH with target t answered while the registry stays
\* as it is, the 200 OK handed to the writer go to the datagram's source and
\* are one per registered advertisement for ssdp:all, else the one of the
\* device uuid t, else one per advertisement of the bucket t, else none; no
\* advertisement gets more; an M-SEARCH missing MAN, MX or ST gets none.
C10_SearchResponses ==
    /\ (reader.got = "msearch" /\ ~reader.valid) =>
           /\ reader.pc # "respond"
           /\ reader.cur = 0 /\ reader.slice = <<>> /\ reader.sent = <<>>
    /\ (reader.pc = "respond" /\ ~reader.changed) =>
           /\ \A i \in 1..Len(reader.sent) :
                  reader.sent[i].kind = "response" /\ reader.sent[i].to = reader.to
           /\ \A p \in 1..Len(adsHeap) : Responses(p) <= Due(reader.st, p)
           /\ SearchOver => \A p \in 1..Len(adsHeap) : Responses(p) = Due(reader.st, p)

\* An ssdp:all search has been answered for two advertisements.
C10_Witness ==
    /\ SearchOver
    /\ ~reader.changed
    /\ reader.st = SsdpAll
    /\ Len(reader.sent) = 2
    /\ reader.sent[1].ad # reader.sent[2].ad

\* C11: the delay before the responses of a valid M-SEARCH is m seconds when
\* its MX header parses as the integer m >= 0, and 0 when it does not parse.
C11_DelayIsMx ==
    [][\A man \in ManValues : \A mx \in MxValues : \A st \in StValues :
          \A src \in Addrs :
              (ReaderMSearch(man, mx, st, src) /\ reader'.pc = "respond") =>
                  reader'.delay = IF ParseInt(mx).err \/ ParseInt(mx).val < 0 THEN 0
                                  ELSE ParseInt(mx).val]_vars

\* C12: every window of maxAge seconds that starts at a NOTIFY alive of an
\* advertisement contains a further alive of it: two consecutive alives are at
\* most maxAge seconds apart.
C12_AliveWithinMaxAge ==
    clock.prev >= 0 => clock.last - clock.prev <= clock.age

\* The bucket of service type k, empty when the key is absent.
Bucket(m, k) == IF k \in DOMAIN m THEN m[k] ELSE <<>>

\* The bucket without object p, the others in their order.
Without(group, p) == SelectSeq(group, LAMBDA q : q # p)

\* C13: RemoveServer(uuid) on a running engine takes the advertisement found
\* under uuid out of the uuid index and out of its bucket, leaves no empty
\* bucket, keeps every other entry of both indexes and the order of the
\* buckets, and hands nothing to the writer; for an unknown uuid it changes
\* nothing.
C13_RemoveServerEffect ==
    [][\A uuid \in Uuids : (isRunning /\ RemoveServer(uuid)) =>
          /\ handed' = handed
          /\ listenSenders' = listenSenders
          /\ IF uuid \in DOMAIN deviceIdToServer
             THEN LET p == deviceIdToServer[uuid] IN
                  /\ deviceIdToServer' = MapDel(deviceIdToServer, uuid)
                  /\ \A k \in DOMAIN advertisableServers' :
                         advertisableServers'[k] # <<>>
                  /\ \A k \in ServiceTypes :
                         Bucket(advertisableServers', k) =
                             Without(Bucket(advertisableServers, k), p)
             ELSE UNCHANGED <<advertisableServers, deviceIdToServer, timers>>]_vars

\* C14: Start has returned only when both loops have exited: never with the
\* writer loop still running.
C14_StartWaitsForWriter ==
    reader.pc = "exited" => writerPc \in {"idle", "exited"}

\* The MaxAge the claim names for Cache-Control value cc, where it names one.
AgeAsClaimed(cc, age) ==
    /\ \A n \in 0..MaxAgeSent : cc = MaxAgeHeader(n) => age = n
    /\ cc = <<>> => age = -1
    /\ (/\ Len(cc) >= Len(MaxAgeKey)
        /\ SubSeq(cc, 1, Len(MaxAgeKey)) = MaxAgeKey
        /\ \A i \in (Len(MaxAgeKey) + 1)..Len(cc) : ~IsDigit(cc[i])) => age = -1

\* C15: an alive NOTIFY or a search response with Cache-Control `max-age=<n>`,
\* n in 0..MaxAgeSent, gives an event with MaxAge = n; without the header, or
\* with no digits after `max-age=`, the event is delivered with MaxAge = -1.
C15_MaxAgeParsed ==
    [][/\ \A nts \in NtsValues : \A nt \in NtValues : \A cc \in CcValues :
              (/\ ReaderNotify(nts, nt, cc)
               /\ listener /\ nt # <<>> /\ ToLower(nts) = "ssdp:alive") =>
                  event'.kind = "alive" /\ AgeAsClaimed(cc, event'.maxAge)
       /\ \A st \in ResponseSts : \A cc \in CcValues :
              (ReaderResponse(st, cc) /\ listener) =>
                  event'.kind = "response" /\ AgeAsClaimed(cc, event'.maxAge)]_vars

\* An alive with a two-digit max-age has been delivered.
C15_Witness == event.kind = "alive" /\ event.maxAge = MaxAgeSent

\* The datagram the writer has received and not yet written.
InFlight == IF writing = NoMsg THEN EmptyBag ELSE SetToBag({writing})

\* C16: the writer writes the datagrams in the order it received them: it
\* holds at most one, the one received last, and writes exactly that one
\* before it receives the next, so none is reordered, duplicated or dropped.
C16_WrittenInOrder ==
    /\ [](handed = wire (+) InFlight)
    /\ [][/\ handed' # handed => writing = NoMsg /\ handed' = handed (+) InFlight'
          /\ wire' # wire => wire' = wire (+) InFlight /\ writing' = NoMsg]_vars

\* Datagrams of a timer and of ListenFor have been written while another
\* producer is blocked on the channel.
C16_Witness ==
    /\ \E p \in 1..MaxAds : BagIn(AliveMsg(p), wire)
    /\ \E t \in ListenTargets : BagIn(SearchMsg(t), wire)
    /\ PendingSenders
    /\ writing = NoMsg

\* C17: once RemoveServer has returned for an advertisement, no NOTIFY alive
\* of it is handed to the writer.
C17_RemovedStaysSilent ==
    [][\A p \in removed :
          CopiesIn(AliveMsg(p), handed') = CopiesIn(AliveMsg(p), handed)]_vars

\* C18: once Stop has handed the byebye of an advertisement to the writer, no
\* NOTIFY alive of it is handed over or written and none of its timers fires.
C18_ByebyeIsLast ==
    [][\A p \in 1..Len(adsHeap) : CopiesIn(ByeMsg(p), handed) > 0 =>
          /\ CopiesIn(AliveMsg(p), handed') = CopiesIn(AliveMsg(p), handed)
          /\ CopiesIn(AliveMsg(p), wire') = CopiesIn(AliveMsg(p), wire)
          /\ \A k \in TimerIds :
                 ~(timers[p][k] = "armed" /\ timers'[p][k] = "sending")]_vars

\* C19: Stop closes the socket only when the writer loop has exited and
\* every datagram the writer received has been written; the writer never has
\* a datagram to write with the socket closed.
C19_SocketClosedAfterWriter ==
    /\ [](writerPc = "write" => socket = "open")
    /\ [][(socket = "open" /\ socket' # "open") =>
              writerPc = "exited" /\ writing = NoMsg /\ wire = handed]_vars

\* The socket is closed after a byebye and another datagram were written.
C19_Witness ==
    /\ socket = "closed"
    /\ \E p \in 1..MaxAds : BagIn(ByeMsg(p), wire)
    /\ BagCardinality(wire) >= 2

\* C20: Stop clears the socket handles, and returns, only when no reader loop
\* is between the call of Start and its exit.
C20_ClearedAfterReader ==
    [][(socket # "nil" /\ socket' = "nil") => reader.pc \in {"idle", "exited"}]_vars

\* C21: the search responder reads the registry under the lock of
\* AdvertiseServer and RemoveServer: while its range loop over
\* advertisableServers is in progress no call changes either index.
C21_ResponderReadsUnderLock ==
    [][(reader.pc = "respond" /\ reader.mode = "all") =>
          UNCHANGED <<advertisableServers, deviceIdToServer>>]_vars

\* The search target the claim names for ST value st.
Target(st) ==
    IF Len(st) >= 2 /\ st[1] = Quote /\ st[Len(st)] = Quote
    THEN SubSeq(st, 2, Len(st) - 1)
    ELSE st

\* C22: for a valid M-SEARCH the search target is computed without failure:
\* the ST value without its first and last character when it has two or more
\* characters and both ends are double quotes, else the ST value itself.
C22_UnquotedTarget ==
    [][\A man \in ManValues : \A mx \in MxValues : \A st \in StValues :
          \A src \in Addrs :
              (ReaderMSearch(man, mx, st, src) /\ MSearchValid(man, mx, st)) =>
                  /\ panic' = "none"
                  /\ reader'.pc = "respond"
                  /\ reader'.st = Target(st)]_vars

\* C23: an M-SEARCH is answered by a task of its own: while a response waits
\* to be taken by the writer, the reader task is at its read of the socket.
C23_ReaderFreeWhileResponding ==
    reader.cur # 0 => reader.pc = "read"

====
